---------------------------- MODULE Spec2Model ----------------------------
(***************************************************************************)
(* Attendance session and verification protocol of the IIIT-NR attendance  *)
(* backend (src/FacultyApp/src/services/api.ts, the Express server part).  *)
(*                                                                         *)
(* Every HTTP request is a process with its own locals; every `await` on   *)
(* the Firestore client is one atomic step against the shared collections, *)
(* so two requests interleave exactly at their awaits.                     *)
(*                                                                         *)
(* Units.  The clock `now` counts seconds; Date.now() is now * 1000 ms.    *)
(* Coordinates are integers in the unit of arc that spans one metre on the *)
(* sphere of radius 6371e3 m; the model stays near the origin, where the   *)
(* Haversine distance is the Euclidean one to within rounding.             *)
(***************************************************************************)
EXTENDS Integers, Sequences, FiniteSets, TLC

(***************************************************************************)
(* Bounds of the model.                                                    *)
(***************************************************************************)
\* the clock runs over 0..MaxTime seconds
MaxTime == 2
\* at most MaxSessions sessions are created by generate-qr
MaxSessions == 1
\* at most MaxRecords documents in the attendance collection
MaxRecords == 3
\* presentStudentIds arrays have at most MaxArr elements
MaxArr == 2
\* at most MaxCourses documents in the courses collection
MaxCourses == 4
\* at most MaxEnrollments documents in the enrollments collection
MaxEnrollments == 4

(***************************************************************************)
(* Principals, documents and inputs.                                       *)
(***************************************************************************)
Procs == {"p1", "p2"}
Students == {"u1", "u2"}
Faculty == {"f1", "f2"}
Courses == {"c1", "c2"}

\* Firestore auto-ids of the course documents, in creation order; the courses
\* of Courses exist from the start
CourseName(i) == "c" \o ToString(i)
CourseIdUniverse == {CourseName(i) : i \in 1..MaxCourses}

\* join codes generateJoinCode can return: six characters of its alphabet
JoinCodes == {"ABC234", "XYZ789"}
\* a course document without a joinCode member
NoJoinCode == ""

\* String.prototype.toUpperCase on the join codes clients send
ToUpperCase(s) == IF s = "abc234" THEN "ABC234" ELSE s

\* collection `students`: the e-mail address of each student document
StudentEmail(u) == u \o "@iiitnr.edu.in"
\* an e-mail address no student document carries
UnknownEmail == "nobody@iiitnr.edu.in"

\* Firestore auto-ids of the session documents, in creation order; one more
\* id than can be created, so that an id without a document always exists.
SessionName(i) == "s" \o ToString(i)
SessionIdUniverse == {SessionName(i) : i \in 1..(MaxSessions + 1)}

\* an optional JS number: `undefined` or a number
Undefined == [defined |-> FALSE, val |-> 0]
Num(n) == [defined |-> TRUE, val |-> n]
\* JS truthiness of an optional number (undefined and 0 are falsy)
Truthy(v) == v.defined /\ v.val # 0

\* A JSON scalar as JSON.parse yields it: a number or a string.
JsNumber(n) == [type |-> "number", num |-> n, str |-> ""]
JsString(s) == [type |-> "string", num |-> 0, str |-> s]

\* `${v}` in a template literal: the decimal digits of a number, a string as is
TemplateString(v) == IF v.type = "number" THEN ToString(v.num) ELSE v.str

\* process.env.QR_SECRET || 'fallback-secret'
QR_SECRET == "fallback-secret"

\* Buffer.from(s).toString('base64'): an injective encoding of s
Base64(s) == "b64(" \o s \o ")"

\* `${sessionId}-${timestamp}-${secret}` encoded; sessionId is a string,
\* timestamp a JSON scalar
SignatureOf(sessionId, timestamp) ==
    Base64(sessionId \o "-" \o TemplateString(timestamp) \o "-" \o QR_SECRET)

\* the payload has no `location` member
NoLocation == [present |-> FALSE, latitude |-> 0, longitude |-> 0, radius |-> 0]
Location(lat, lon, r) ==
    [present |-> TRUE, latitude |-> lat, longitude |-> lon, radius |-> r]

\* generateQRPayload(sessionId, courseId, facultyId, location, expiresIn)
\* evaluated when Date.now() = dateNow
generateQRPayload(sessionId, courseId, facultyId, location, expiresIn, dateNow) ==
    [ sessionId |-> sessionId,
      courseId  |-> courseId,
      facultyId |-> facultyId,
      timestamp |-> JsNumber(dateNow),
      expiresAt |-> dateNow + expiresIn,
      location  |-> location,
      signature |-> SignatureOf(sessionId, JsNumber(dateNow)) ]

\* verifyQRSignature(payload)
verifyQRSignature(payload) ==
    payload.signature = SignatureOf(payload.sessionId, payload.timestamp)

\* the expiry comparison turned around: Date.now() < payload.expiresAt
IsExpiredInverted(payload, dateNow) == dateNow < payload.expiresAt

\* Date.now() > payload.expiresAt
IsExpired(payload, dateNow) == dateNow > payload.expiresAt

\* calculateDistance squared (metres^2): the code compares the distance with
\* a non-negative radius, which is the comparison of the squares
DistanceSq(lat1, lon1, lat2, lon2) ==
    (lat2 - lat1) * (lat2 - lat1) + (lon2 - lon1) * (lon2 - lon1)

\* Math.round(Math.sqrt(sq)): the n with (n - 1/2)^2 <= sq < (n + 1/2)^2
RoundSqrt(sq) ==
    CHOOSE n \in 0..(sq + 1) :
        /\ (n = 0 \/ (2 * n - 1) * (2 * n - 1) <= 4 * sq)
        /\ 4 * sq < (2 * n + 1) * (2 * n + 1)

\* payload.location.radius || 50
DefaultRadius == 50
MaxDistance(location) ==
    IF location.radius # 0 THEN location.radius ELSE DefaultRadius

\* the guard of the geolocation block: payload.location && latitude && longitude
GeoChecked(payload, latitude, longitude) ==
    payload.location.present /\ Truthy(latitude) /\ Truthy(longitude)

\* distanceFromClass, rounded, as stored and reported (0 when the block is skipped)
DistanceFromClass(payload, latitude, longitude) ==
    IF GeoChecked(payload, latitude, longitude)
    THEN RoundSqrt(DistanceSq(latitude.val, longitude.val,
                              payload.location.latitude, payload.location.longitude))
    ELSE 0

\* locationVerified = distanceFromClass <= maxDistance (true when skipped)
LocationVerified(payload, latitude, longitude) ==
    IF GeoChecked(payload, latitude, longitude)
    THEN DistanceSq(latitude.val, longitude.val,
                    payload.location.latitude, payload.location.longitude)
           <= MaxDistance(payload.location) * MaxDistance(payload.location)
    ELSE TRUE

(***************************************************************************)
(* State.                                                                  *)
(***************************************************************************)
VARIABLES
    now,          \* wall clock, seconds
    courses,      \* collection `courses`: course id -> document
    enrollments,  \* collection `enrollments`: sequence of documents
    sessions,     \* collection `sessions`: session id -> document or NoDoc
    activeQRs,    \* collection `activeQRs`: session id -> stored payload or NoDoc
    attendance,   \* collection `attendance`: documents, the index is the doc id
    issued,       \* payloads returned to faculty by generate-qr (shown as QR codes)
    req,          \* per process: the request in progress and its locals
    sent          \* the request answered by the last step with its response
                  \* (res.json), or NoMessage when the last step answered none

vars == <<now, courses, enrollments, sessions, activeQRs, attendance, issued,
          req, sent>>

DateNow == now * 1000

NoDoc == [exists |-> FALSE]
Idle == [kind |-> "idle", pc |-> "idle"]
NoMessage == [kind |-> "none", pc |-> "none"]

\* the response of a request: error kind (or "OK"), with the two numbers an
\* out-of-range rejection carries
Response(error) == [error |-> error, distance |-> 0, maxDistance |-> 0]
Pending == Response("pending")

Init ==
    /\ now = 0
    /\ courses = [c \in CourseIdUniverse |->
                    IF c = "c1"
                    THEN [exists |-> TRUE, facultyId |-> "f1", joinCode |-> "ABC234",
                          enrolledCount |-> 0]
                    ELSE IF c = "c2"
                    THEN [exists |-> TRUE, facultyId |-> "f2", joinCode |-> NoJoinCode,
                          enrolledCount |-> 0]
                    ELSE NoDoc]
    /\ enrollments = << [studentId |-> "u1", courseId |-> "c1", isActive |-> TRUE],
                        [studentId |-> "u2", courseId |-> "c2", isActive |-> TRUE] >>
    /\ sessions = [s \in SessionIdUniverse |-> NoDoc]
    /\ activeQRs = [s \in SessionIdUniverse |-> NoDoc]
    /\ attendance = << >>
    /\ issued = {}
    /\ req = [p \in Procs |-> Idle]
    /\ sent = NoMessage

\* time passes
Tick ==
    /\ now < MaxTime
    /\ now' = now + 1
    /\ sent' = NoMessage
    /\ UNCHANGED <<courses, enrollments, sessions, activeQRs, attendance, issued, req>>

\* process p goes on with its request, its locals now r
Continue(p, r) ==
    /\ req' = [req EXCEPT ![p] = r]
    /\ sent' = NoMessage

\* process p answers its request r with resp and is free for the next request
Respond(p, r, resp) ==
    /\ req' = [req EXCEPT ![p] = Idle]
    /\ sent' = [r EXCEPT !.pc = "done", !.resp = resp]

(***************************************************************************)
(* Helpers over the collections.                                           *)
(***************************************************************************)
\* db.collection('courses').doc(c).get()
CourseDoc(c) == IF c \in DOMAIN courses THEN courses[c] ELSE NoDoc

\* db.collection('sessions').doc(s).get()
SessionDoc(s) == IF s \in DOMAIN sessions THEN sessions[s] ELSE NoDoc

\* ids of the documents of a sequence-shaped collection that satisfy Test
DocIds(coll, Test(_)) == {i \in 1..Len(coll) : Test(coll[i])}

\* the number of session documents
NumSessions == Cardinality({s \in DOMAIN sessions : sessions[s].exists})

\* attendance documents a request in progress may still add
Reserved(r) ==
    CASE r.kind = "scan" -> IF r.pc = "updateSession" THEN 0 ELSE 1
      [] r.kind = "manual" ->
             IF r.pc = "apply" THEN Len(r.toAdd) ELSE Len(r.presentStudentIds)
      [] OTHER -> 0

RECURSIVE SumReserved(_)
SumReserved(ps) ==
    IF ps = {} THEN 0
    ELSE LET p == CHOOSE q \in ps : TRUE
         IN Reserved(req[p]) + SumReserved(ps \ {p})

\* room for n more attendance documents within MaxRecords
RoomFor(n) == Len(attendance) + SumReserved(Procs) + n <= MaxRecords

\* generate-qr requests in progress that have not yet added their session
GeneratingSessions ==
    Cardinality({p \in Procs : req[p].kind = "generate"
                               /\ req[p].pc \in {"getCourse", "addSession"}})

(***************************************************************************)
(* POST /api/faculty/generate-qr                                           *)
(***************************************************************************)
\* the request arrives; input validation (lines 767-783)
GenStart(p, uid, courseId, latitude, longitude, radius, validitySeconds) ==
    /\ req[p].pc = "idle"
    /\ NumSessions + GeneratingSessions < MaxSessions
    /\ LET r == [kind |-> "generate", pc |-> "getCourse", uid |-> uid,
                 courseId |-> courseId, latitude |-> latitude,
                 longitude |-> longitude, radius |-> radius,
                 validitySeconds |-> validitySeconds, sessionId |-> "",
                 resp |-> Pending]
       IN IF courseId = "" \/ ~latitude.defined \/ ~longitude.defined
          THEN Respond(p, r, Response("ValidationError"))
          ELSE Continue(p, r)
    /\ UNCHANGED <<now, courses, enrollments, sessions, activeQRs, attendance, issued>>

\* GenGetCourse without the comparison of course.facultyId with the caller
GenGetCourseAnyCaller(p) ==
    /\ req[p].kind = "generate" /\ req[p].pc = "getCourse"
    /\ IF ~CourseDoc(req[p].courseId).exists
       THEN Respond(p, req[p], Response("NotFound"))
       ELSE Continue(p, [req[p] EXCEPT !.pc = "addSession"])
    /\ UNCHANGED <<now, courses, enrollments, sessions, activeQRs, attendance, issued>>

\* courses.doc(courseId).get() and the ownership check (lines 786-794)
GenGetCourse(p) ==
    /\ req[p].kind = "generate" /\ req[p].pc = "getCourse"
    /\ LET course == CourseDoc(req[p].courseId)
       IN IF ~course.exists
          THEN Respond(p, req[p], Response("NotFound"))
          ELSE IF course.facultyId # req[p].uid
          THEN Respond(p, req[p], Response("Forbidden"))
          ELSE Continue(p, [req[p] EXCEPT !.pc = "addSession"])
    /\ UNCHANGED <<now, courses, enrollments, sessions, activeQRs, attendance, issued>>

\* the auto-id of the next session document
NewSessionId == SessionName(NumSessions + 1)

\* sessions.add(sessionData) (lines 796-815)
GenAddSession(p) ==
    /\ req[p].kind = "generate" /\ req[p].pc = "addSession"
    /\ sessions' = [sessions EXCEPT ![NewSessionId] =
          [exists |-> TRUE,
           courseId |-> req[p].courseId,
           facultyId |-> req[p].uid,
           locationLatitude |-> req[p].latitude.val,
           locationLongitude |-> req[p].longitude.val,
           geofenceRadius |-> req[p].radius,
           presentCount |-> 0,
           isActive |-> TRUE,
           ended |-> FALSE]]
    /\ Continue(p, [req[p] EXCEPT !.pc = "setQR", !.sessionId = NewSessionId])
    /\ UNCHANGED <<now, courses, enrollments, activeQRs, attendance, issued>>

\* generateQRPayload, activeQRs.doc(sessionId).set(...) and the response
\* carrying the payload (lines 817-839)
GenSetQR(p) ==
    /\ req[p].kind = "generate" /\ req[p].pc = "setQR"
    /\ LET r == req[p]
           qrPayload == generateQRPayload(r.sessionId, r.courseId, r.uid,
                            Location(r.latitude.val, r.longitude.val, r.radius),
                            r.validitySeconds * 1000, DateNow)
       IN /\ activeQRs' = [activeQRs EXCEPT ![r.sessionId] =
                              [exists |-> TRUE, payload |-> qrPayload]]
          /\ issued' = issued \cup {qrPayload}
          /\ Respond(p, r, Response("OK"))
    /\ UNCHANGED <<now, courses, enrollments, sessions, attendance>>

(***************************************************************************)
(* POST /api/student/scan-qr                                               *)
(***************************************************************************)
\* qrData as the body carries it: text that is not JSON, the JSON text
\* `null`, or the JSON text of an object
QrInvalid == [json |-> "invalid"]
QrNull == [json |-> "null"]
QrObject(payload) == [json |-> "object", payload |-> payload]

\* the request arrives: JSON.parse, verifyQRSignature and the expiry check run
\* without an await in between (lines 352-371)
ScanStart(p, uid, qrData, latitude, longitude) ==
    /\ req[p].pc = "idle"
    /\ RoomFor(1)
    /\ LET r == [kind |-> "scan", pc |-> "getSession", uid |-> uid,
                 qrData |-> qrData, latitude |-> latitude, longitude |-> longitude,
                 resp |-> Pending]
       IN IF qrData.json = "invalid"
          THEN Respond(p, r, Response("InvalidFormat"))
          \* verifyQRSignature(null) throws a TypeError: the outer catch answers 500
          ELSE IF qrData.json = "null"
          THEN Respond(p, r, Response("InternalError"))
          ELSE IF ~verifyQRSignature(qrData.payload)
          THEN Respond(p, r, Response("InvalidSignature"))
          ELSE IF IsExpired(qrData.payload, DateNow)
          THEN Respond(p, r, Response("Expired"))
          ELSE Continue(p, r)
    /\ UNCHANGED <<now, courses, enrollments, sessions, activeQRs, attendance, issued>>

\* sessions.doc(payload.sessionId).get() (lines 373-379)
ScanGetSession(p) ==
    /\ req[p].kind = "scan" /\ req[p].pc = "getSession"
    /\ IF ~SessionDoc(req[p].qrData.payload.sessionId).exists
       THEN Respond(p, req[p], Response("NotFound"))
       ELSE Continue(p, [req[p] EXCEPT !.pc = "queryEnrollment"])
    /\ UNCHANGED <<now, courses, enrollments, sessions, activeQRs, attendance, issued>>

\* the enrollment query: studentId == userId, courseId == payload.courseId,
\* isActive == true (lines 381-387)
EnrollmentSnapshot(uid, courseId) ==
    DocIds(enrollments, LAMBDA e : e.studentId = uid /\ e.courseId = courseId
                                   /\ e.isActive)

\* the enrollment query and its check (lines 381-391)
ScanQueryEnrollment(p) ==
    /\ req[p].kind = "scan" /\ req[p].pc = "queryEnrollment"
    /\ IF EnrollmentSnapshot(req[p].uid, req[p].qrData.payload.courseId) = {}
       THEN Respond(p, req[p], Response("Forbidden"))
       ELSE Continue(p, [req[p] EXCEPT !.pc = "queryAttendance"])
    /\ UNCHANGED <<now, courses, enrollments, sessions, activeQRs, attendance, issued>>

\* ExistingAttendance with the two where-clauses' values swapped, which
\* matches no document
ExistingAttendanceSwapped(sessionId, uid) ==
    DocIds(attendance, LAMBDA a : a.sessionId = uid /\ a.studentId = sessionId)

\* the already-marked query: sessionId == payload.sessionId, studentId == userId
\* (lines 393-398)
ExistingAttendance(sessionId, uid) ==
    DocIds(attendance, LAMBDA a : a.sessionId = sessionId /\ a.studentId = uid)

\* ScanQueryAttendance with the document written before the geolocation
\* check instead of after it: an out-of-range scan is rejected with its
\* document already in the collection
ScanQueryAttendanceWriteFirst(p) ==
    /\ req[p].kind = "scan" /\ req[p].pc = "queryAttendance"
    /\ LET r == req[p]
           payload == r.qrData.payload
           doc == [sessionId |-> payload.sessionId,
                   courseId |-> payload.courseId,
                   studentId |-> r.uid,
                   status |-> "present",
                   markedBy |-> "student",
                   markedAt |-> now,
                   locationVerified |-> LocationVerified(payload, r.latitude, r.longitude),
                   distanceFromClass |-> DistanceFromClass(payload, r.latitude, r.longitude),
                   manual |-> FALSE]
       IN IF ExistingAttendance(payload.sessionId, r.uid) # {}
          THEN /\ attendance' = attendance
               /\ Respond(p, r, Response("AlreadyMarked"))
          ELSE IF ~LocationVerified(payload, r.latitude, r.longitude)
          THEN /\ attendance' = Append(attendance, doc)
               /\ Respond(p, r,
                     [error |-> "OutOfRange",
                      distance |-> DistanceFromClass(payload, r.latitude, r.longitude),
                      maxDistance |-> MaxDistance(payload.location)])
          ELSE /\ attendance' = Append(attendance, doc)
               /\ Continue(p, [r EXCEPT !.pc = "updateSession"])
    /\ UNCHANGED <<now, courses, enrollments, sessions, activeQRs, issued>>

\* the already-marked check, then the geolocation block, which has no await
\* (lines 393-426)
ScanQueryAttendance(p) ==
    /\ req[p].kind = "scan" /\ req[p].pc = "queryAttendance"
    /\ LET r == req[p]
           payload == r.qrData.payload
       IN IF ExistingAttendance(payload.sessionId, r.uid) # {}
          THEN Respond(p, r, Response("AlreadyMarked"))
          ELSE IF ~LocationVerified(payload, r.latitude, r.longitude)
          THEN Respond(p, r,
                   [error |-> "OutOfRange",
                    distance |-> DistanceFromClass(payload, r.latitude, r.longitude),
                    maxDistance |-> MaxDistance(payload.location)])
          ELSE Continue(p, [r EXCEPT !.pc = "addAttendance"])
    /\ UNCHANGED <<now, courses, enrollments, sessions, activeQRs, attendance, issued>>

\* attendance.add(attendanceData) (lines 428-445)
ScanAddAttendance(p) ==
    /\ req[p].kind = "scan" /\ req[p].pc = "addAttendance"
    /\ LET r == req[p]
           payload == r.qrData.payload
       IN attendance' = Append(attendance,
            [sessionId |-> payload.sessionId,
             courseId |-> payload.courseId,
             studentId |-> r.uid,
             status |-> "present",
             markedBy |-> "student",
             markedAt |-> now,
             locationVerified |-> LocationVerified(payload, r.latitude, r.longitude),
             distanceFromClass |-> DistanceFromClass(payload, r.latitude, r.longitude),
             manual |-> FALSE])
    /\ Continue(p, [req[p] EXCEPT !.pc = "updateSession"])
    /\ UNCHANGED <<now, courses, enrollments, sessions, activeQRs, issued>>

\* ScanUpdateSession as a read-modify-write: presentCount is set to one more
\* than a value the request read before, any value the counter has had while
\* only scans change it
ScanUpdateSessionReadModifyWrite(p) ==
    /\ req[p].kind = "scan" /\ req[p].pc = "updateSession"
    /\ LET r == req[p]
           sid == r.qrData.payload.sessionId
       IN IF SessionDoc(sid).exists
          THEN /\ \E read \in 0..sessions[sid].presentCount :
                     sessions' = [sessions EXCEPT ![sid].presentCount = read + 1]
               /\ Respond(p, r,
                     [error |-> "OK",
                      distance |-> DistanceFromClass(r.qrData.payload,
                                                     r.latitude, r.longitude),
                      maxDistance |-> 0])
          ELSE /\ sessions' = sessions
               /\ Respond(p, r, Response("InternalError"))
    /\ UNCHANGED <<now, courses, enrollments, activeQRs, attendance, issued>>

\* sessions.doc(payload.sessionId).update({presentCount: increment(1)}) and the
\* success response (lines 447-466); update() of a missing document rejects
\* and the outer catch answers 500
ScanUpdateSession(p) ==
    /\ req[p].kind = "scan" /\ req[p].pc = "updateSession"
    /\ LET r == req[p]
           sid == r.qrData.payload.sessionId
       IN IF SessionDoc(sid).exists
          THEN /\ sessions' = [sessions EXCEPT ![sid].presentCount = @ + 1]
               /\ Respond(p, r,
                     [error |-> "OK",
                      distance |-> DistanceFromClass(r.qrData.payload,
                                                     r.latitude, r.longitude),
                      maxDistance |-> 0])
          ELSE /\ sessions' = sessions
               /\ Respond(p, r, Response("InternalError"))
    /\ UNCHANGED <<now, courses, enrollments, activeQRs, attendance, issued>>

(***************************************************************************)
(* POST /api/faculty/session/:sessionId/stop                               *)
(***************************************************************************)
\* the request arrives (lines 899-901)
StopStart(p, uid, sessionId) ==
    /\ req[p].pc = "idle"
    /\ Continue(p, [kind |-> "stop", pc |-> "updateSession", uid |-> uid,
                    sessionId |-> sessionId, resp |-> Pending])
    /\ UNCHANGED <<now, courses, enrollments, sessions, activeQRs, attendance, issued>>

\* sessions.doc(sessionId).update({isActive: false, endedAt}) (lines 903-906);
\* update() of a missing document rejects and the catch answers 500
StopUpdateSession(p) ==
    /\ req[p].kind = "stop" /\ req[p].pc = "updateSession"
    /\ IF SessionDoc(req[p].sessionId).exists
       THEN /\ sessions' = [sessions EXCEPT ![req[p].sessionId] =
                               [@ EXCEPT !.isActive = FALSE, !.ended = TRUE]]
            /\ Continue(p, [req[p] EXCEPT !.pc = "deleteQR"])
       ELSE /\ sessions' = sessions
            /\ Respond(p, req[p], Response("InternalError"))
    /\ UNCHANGED <<now, courses, enrollments, activeQRs, attendance, issued>>

\* activeQRs.doc(sessionId).delete() and the response (lines 908-910)
StopDeleteQR(p) ==
    /\ req[p].kind = "stop" /\ req[p].pc = "deleteQR"
    /\ activeQRs' = [activeQRs EXCEPT ![req[p].sessionId] = NoDoc]
    /\ Respond(p, req[p], Response("OK"))
    /\ UNCHANGED <<now, courses, enrollments, sessions, attendance, issued>>

(***************************************************************************)
(* POST /api/faculty/session/:sessionId/manual-attendance                  *)
(***************************************************************************)
\* array.filter(id => keep.has(id)), in order
RECURSIVE Filter(_, _)
Filter(seq, keep) ==
    IF seq = << >> THEN << >>
    ELSE IF Head(seq) \in keep THEN <<Head(seq)>> \o Filter(Tail(seq), keep)
    ELSE Filter(Tail(seq), keep)

\* new Set(array)
Range(seq) == {seq[i] : i \in 1..Len(seq)}

\* the request arrives; Array.isArray(presentStudentIds) (lines 974-978)
ManualStart(p, uid, sessionId, isArray, presentStudentIds) ==
    /\ req[p].pc = "idle"
    /\ RoomFor(Len(presentStudentIds))
    /\ LET r == [kind |-> "manual", pc |-> "getSession", uid |-> uid,
                 sessionId |-> sessionId, presentStudentIds |-> presentStudentIds,
                 courseId |-> "", snapshot |-> {}, toAdd |-> << >>, toRemove |-> {},
                 added |-> 0, removed |-> 0, resp |-> Pending]
       IN IF ~isArray
          THEN Respond(p, r, Response("ValidationError"))
          ELSE Continue(p, r)
    /\ UNCHANGED <<now, courses, enrollments, sessions, activeQRs, attendance, issued>>

\* ManualGetSession without the comparison of session.facultyId with the caller
ManualGetSessionAnyCaller(p) ==
    /\ req[p].kind = "manual" /\ req[p].pc = "getSession"
    /\ IF ~SessionDoc(req[p].sessionId).exists
       THEN Respond(p, req[p], Response("NotFound"))
       ELSE Continue(p, [req[p] EXCEPT !.pc = "queryAttendance",
                                       !.courseId = SessionDoc(req[p].sessionId).courseId])
    /\ UNCHANGED <<now, courses, enrollments, sessions, activeQRs, attendance, issued>>

\* sessions.doc(sessionId).get() and the ownership check (lines 980-988)
ManualGetSession(p) ==
    /\ req[p].kind = "manual" /\ req[p].pc = "getSession"
    /\ LET session == SessionDoc(req[p].sessionId)
       IN IF ~session.exists
          THEN Respond(p, req[p], Response("NotFound"))
          ELSE IF session.facultyId # req[p].uid
          THEN Respond(p, req[p], Response("Forbidden"))
          ELSE Continue(p, [req[p] EXCEPT !.pc = "queryAttendance",
                                          !.courseId = session.courseId])
    /\ UNCHANGED <<now, courses, enrollments, sessions, activeQRs, attendance, issued>>

\* currentSnapshot: the attendance documents of the session as read by the
\* query, each with its id and the data it had then (lines 990-993)
CurrentSnapshot(sessionId) ==
    { [id |-> i, studentId |-> attendance[i].studentId, status |-> attendance[i].status] :
        i \in DocIds(attendance, LAMBDA a : a.sessionId = sessionId) }

\* currentPresentIds (lines 995-999)
CurrentPresentIds(snapshot) ==
    {d.studentId : d \in {e \in snapshot : e.status = "present"}}

\* the query, then currentPresentIds, toAdd and toRemove (lines 990-1004)
ManualQueryAttendance(p) ==
    /\ req[p].kind = "manual" /\ req[p].pc = "queryAttendance"
    /\ LET r == req[p]
           snapshot == CurrentSnapshot(r.sessionId)
           currentPresentIds == CurrentPresentIds(snapshot)
           newPresentSet == Range(r.presentStudentIds)
           toAdd == Filter(r.presentStudentIds, newPresentSet \ currentPresentIds)
           toRemove == currentPresentIds \ newPresentSet
       IN Continue(p, [r EXCEPT !.pc = "apply", !.snapshot = snapshot,
                                !.toAdd = toAdd, !.toRemove = toRemove,
                                !.added = Len(toAdd),
                                !.removed = Cardinality(toRemove)])
    /\ UNCHANGED <<now, courses, enrollments, sessions, activeQRs, attendance, issued>>

\* one iteration of the additions loop: attendance.add (lines 1006-1018)
ManualAdd(p) ==
    /\ req[p].kind = "manual" /\ req[p].pc = "apply"
    /\ req[p].toAdd # << >>
    /\ attendance' = Append(attendance,
          [sessionId |-> req[p].sessionId,
           courseId |-> req[p].courseId,
           studentId |-> Head(req[p].toAdd),
           status |-> "present",
           markedBy |-> "faculty",
           markedAt |-> now,
           locationVerified |-> FALSE,
           distanceFromClass |-> 0,
           manual |-> TRUE])
    /\ Continue(p, [req[p] EXCEPT !.toAdd = Tail(@)])
    /\ UNCHANGED <<now, courses, enrollments, sessions, activeQRs, issued>>

\* ManualRemove with markedAt set to the time of the patch as well
ManualRemoveRestamped(p) ==
    /\ req[p].kind = "manual" /\ req[p].pc = "apply"
    /\ req[p].toAdd = << >>
    /\ \E studentId \in req[p].toRemove :
         \E existing \in {d \in req[p].snapshot :
                             d.studentId = studentId /\ d.status = "present"} :
            /\ attendance' = [attendance EXCEPT ![existing.id] =
                                [@ EXCEPT !.status = "absent", !.markedBy = "faculty",
                                          !.manual = TRUE, !.markedAt = now]]
            /\ Continue(p, [req[p] EXCEPT !.toRemove = @ \ {studentId}])
    /\ UNCHANGED <<now, courses, enrollments, sessions, activeQRs, issued>>

\* one iteration of the removals loop: the first present document of the
\* student in the snapshot is patched to absent (lines 1020-1031); the
\* snapshot's order is the order of the random document ids, so any of the
\* student's present documents may be the first
ManualRemove(p) ==
    /\ req[p].kind = "manual" /\ req[p].pc = "apply"
    /\ req[p].toAdd = << >>
    /\ \E studentId \in req[p].toRemove :
         \E existing \in {d \in req[p].snapshot :
                             d.studentId = studentId /\ d.status = "present"} :
            /\ attendance' = [attendance EXCEPT ![existing.id] =
                                [@ EXCEPT !.status = "absent", !.markedBy = "faculty",
                                          !.manual = TRUE]]
            /\ Continue(p, [req[p] EXCEPT !.toRemove = @ \ {studentId}])
    /\ UNCHANGED <<now, courses, enrollments, sessions, activeQRs, issued>>

\* delta = toAdd.length - toRemove.length; the increment when delta is not 0,
\* and the response (lines 1033-1041)
ManualUpdateCount(p) ==
    /\ req[p].kind = "manual" /\ req[p].pc = "apply"
    /\ req[p].toAdd = << >> /\ req[p].toRemove = {}
    /\ LET delta == req[p].added - req[p].removed
       IN IF delta # 0 /\ ~SessionDoc(req[p].sessionId).exists
          THEN /\ sessions' = sessions
               /\ Respond(p, req[p], Response("InternalError"))
          ELSE /\ sessions' = [sessions EXCEPT ![req[p].sessionId].presentCount = @ + delta]
               /\ Respond(p, req[p], Response("OK"))
    /\ UNCHANGED <<now, courses, enrollments, activeQRs, attendance, issued>>

(***************************************************************************)
(* POST /api/student/join-course                                           *)
(***************************************************************************)
\* enrollments.add calls still to come of the requests in progress
EnrollmentsToCome ==
    Cardinality({p \in Procs : req[p].kind \in {"join", "enroll"}
                               /\ req[p].pc # "updateCount"})

\* courses where joinCode == code
CoursesWithJoinCode(code) ==
    {c \in DOMAIN courses : courses[c].exists /\ courses[c].joinCode = code}

\* enrollments where studentId == uid and courseId == courseId, active or not
ExistingEnrollment(uid, courseId) ==
    DocIds(enrollments, LAMBDA e : e.studentId = uid /\ e.courseId = courseId)

\* the request arrives; the joinCode check (lines 1053-1057)
JoinStart(p, uid, joinCode) ==
    /\ req[p].pc = "idle"
    /\ Len(enrollments) + EnrollmentsToCome < MaxEnrollments
    /\ LET r == [kind |-> "join", pc |-> "findCourse", uid |-> uid,
                 joinCode |-> joinCode, courseId |-> "", resp |-> Pending]
       IN IF joinCode = ""
          THEN Respond(p, r, Response("ValidationError"))
          ELSE Continue(p, r)
    /\ UNCHANGED <<now, courses, enrollments, sessions, activeQRs, attendance, issued>>

\* the course query with limit(1): any one course with the code
\* (lines 1059-1068)
JoinFindCourse(p) ==
    /\ req[p].kind = "join" /\ req[p].pc = "findCourse"
    /\ LET found == CoursesWithJoinCode(ToUpperCase(req[p].joinCode))
       IN IF found = {}
          THEN Respond(p, req[p], Response("NotFound"))
          ELSE \E c \in found :
                  Continue(p, [req[p] EXCEPT !.pc = "checkExisting", !.courseId = c])
    /\ UNCHANGED <<now, courses, enrollments, sessions, activeQRs, attendance, issued>>

\* the existing-enrollment query and its check (lines 1070-1078)
JoinCheckExisting(p) ==
    /\ req[p].kind = "join" /\ req[p].pc = "checkExisting"
    /\ IF ExistingEnrollment(req[p].uid, req[p].courseId) # {}
       THEN Respond(p, req[p], Response("AlreadyEnrolled"))
       ELSE Continue(p, [req[p] EXCEPT !.pc = "addEnrollment"])
    /\ UNCHANGED <<now, courses, enrollments, sessions, activeQRs, attendance, issued>>

\* enrollments.add(enrollmentData) (lines 1080-1088)
JoinAddEnrollment(p) ==
    /\ req[p].kind = "join" /\ req[p].pc = "addEnrollment"
    /\ enrollments' = Append(enrollments,
          [studentId |-> req[p].uid, courseId |-> req[p].courseId, isActive |-> TRUE])
    /\ Continue(p, [req[p] EXCEPT !.pc = "updateCount"])
    /\ UNCHANGED <<now, courses, sessions, activeQRs, attendance, issued>>

\* courses.doc(courseId).update({enrolledCount: increment(1)}) and the
\* response (lines 1090-1095)
JoinUpdateCount(p) ==
    /\ req[p].kind = "join" /\ req[p].pc = "updateCount"
    /\ IF CourseDoc(req[p].courseId).exists
       THEN /\ courses' = [courses EXCEPT ![req[p].courseId].enrolledCount = @ + 1]
            /\ Respond(p, req[p], Response("OK"))
       ELSE /\ courses' = courses
            /\ Respond(p, req[p], Response("InternalError"))
    /\ UNCHANGED <<now, enrollments, sessions, activeQRs, attendance, issued>>

(***************************************************************************)
(* POST /api/faculty/enroll-student                                        *)
(***************************************************************************)
\* the request arrives; the check of courseId and the e-mail (lines 715-721)
EnrollStart(p, uid, courseId, studentEmail) ==
    /\ req[p].pc = "idle"
    /\ Len(enrollments) + EnrollmentsToCome < MaxEnrollments
    /\ LET r == [kind |-> "enroll", pc |-> "findStudent", uid |-> uid,
                 courseId |-> courseId, studentEmail |-> studentEmail,
                 studentId |-> "", resp |-> Pending]
       IN IF courseId = "" \/ studentEmail = ""
          THEN Respond(p, r, Response("ValidationError"))
          ELSE Continue(p, r)
    /\ UNCHANGED <<now, courses, enrollments, sessions, activeQRs, attendance, issued>>

\* the student query by e-mail (lines 723-734)
EnrollFindStudent(p) ==
    /\ req[p].kind = "enroll" /\ req[p].pc = "findStudent"
    /\ LET found == {u \in Students : StudentEmail(u) = req[p].studentEmail}
       IN IF found = {}
          THEN Respond(p, req[p], Response("NotFound"))
          ELSE \E u \in found :
                  Continue(p, [req[p] EXCEPT !.pc = "checkExisting", !.studentId = u])
    /\ UNCHANGED <<now, courses, enrollments, sessions, activeQRs, attendance, issued>>

\* the existing-enrollment query and its check (lines 736-745)
EnrollCheckExisting(p) ==
    /\ req[p].kind = "enroll" /\ req[p].pc = "checkExisting"
    /\ IF ExistingEnrollment(req[p].studentId, req[p].courseId) # {}
       THEN Respond(p, req[p], Response("AlreadyEnrolled"))
       ELSE Continue(p, [req[p] EXCEPT !.pc = "addEnrollment"])
    /\ UNCHANGED <<now, courses, enrollments, sessions, activeQRs, attendance, issued>>

\* enrollments.add(enrollmentData) and the response (lines 747-757)
EnrollAddEnrollment(p) ==
    /\ req[p].kind = "enroll" /\ req[p].pc = "addEnrollment"
    /\ enrollments' = Append(enrollments,
          [studentId |-> req[p].studentId, courseId |-> req[p].courseId,
           isActive |-> TRUE])
    /\ Respond(p, req[p], Response("OK"))
    /\ UNCHANGED <<now, courses, sessions, activeQRs, attendance, issued>>

(***************************************************************************)
(* POST /api/faculty/classes/full                                          *)
(***************************************************************************)
\* the number of course documents
NumCourses == Cardinality({c \in DOMAIN courses : courses[c].exists})

\* classes/full requests in progress that have not yet added their course
CreatingCourses == Cardinality({p \in Procs : req[p].kind = "class"})

\* the auto-id of the next course document
NewCourseId == CourseName(NumCourses + 1)

\* the request arrives with its required members present; generateJoinCode
\* draws the first code (lines 603-631)
ClassStart(p, uid, joinCode) ==
    /\ req[p].pc = "idle"
    /\ NumCourses + CreatingCourses < MaxCourses
    /\ Continue(p, [kind |-> "class", pc |-> "checkCode", uid |-> uid,
                    joinCode |-> joinCode, resp |-> Pending])
    /\ UNCHANGED <<now, courses, enrollments, sessions, activeQRs, attendance, issued>>

\* the uniqueness query for the current code; when a course has it,
\* generateJoinCode draws nextCode and the loop queries again (lines 633-637)
ClassCheckCode(p, nextCode) ==
    /\ req[p].kind = "class" /\ req[p].pc = "checkCode"
    /\ IF CoursesWithJoinCode(req[p].joinCode) = {}
       THEN Continue(p, [req[p] EXCEPT !.pc = "addCourse"])
       ELSE Continue(p, [req[p] EXCEPT !.joinCode = nextCode])
    /\ UNCHANGED <<now, courses, enrollments, sessions, activeQRs, attendance, issued>>

\* courses.add(courseData) and the response (lines 639-662)
ClassAddCourse(p) ==
    /\ req[p].kind = "class" /\ req[p].pc = "addCourse"
    /\ courses' = [courses EXCEPT ![NewCourseId] =
          [exists |-> TRUE, facultyId |-> req[p].uid, joinCode |-> req[p].joinCode,
           enrolledCount |-> 0]]
    /\ Respond(p, req[p], Response("OK"))
    /\ UNCHANGED <<now, enrollments, sessions, activeQRs, attendance, issued>>

(***************************************************************************)
(* The requests clients send.                                              *)
(***************************************************************************)
\* where the class meets, and the geofence radii faculty ask for
ClassLocation == [latitude |-> 60, longitude |-> 10]
ClassLat == ClassLocation.latitude
ClassLon == ClassLocation.longitude
Radii == {0, 50}

\* what a scanning device reports as its position
Positions ==
    { <<Undefined, Undefined>>,       \* no position sent
      <<Num(30), Num(ClassLon)>>,      \* 30 m from the class
      <<Num(120), Num(ClassLon)>>,     \* 60 m from the class
      <<Num(0), Num(ClassLon)>>,       \* 60 m from the class, on the equator
      <<Num(ClassLat), Num(ClassLon)>>,       \* at the class
      <<Num(ClassLat + 1), Num(ClassLon)>>,   \* 1 m from the class
      <<Num(ClassLat + DefaultRadius), Num(ClassLon)>>,        \* 50 m
      <<Num(ClassLat + DefaultRadius + 1), Num(ClassLon)>> }   \* 51 m

\* arrays of at most n student ids, repetitions included
RECURSIVE Arrays(_)
Arrays(n) ==
    IF n = 0 THEN {<< >>}
    ELSE LET shorter == Arrays(n - 1)
         IN shorter \cup {Append(a, u) : a \in shorter, u \in Students}

\* the payloads a client can present from an issued one: the payload itself
\* and the payload with one member altered and the signature kept
Altered(t) ==
    {[t EXCEPT !.sessionId = s] : s \in SessionIdUniverse}
    \cup {[t EXCEPT !.courseId = c] : c \in Courses}
    \cup {[t EXCEPT !.facultyId = f] : f \in Faculty}
    \cup {[t EXCEPT !.timestamp = JsNumber(t.timestamp.num + 1000)],
          [t EXCEPT !.timestamp = JsString(ToString(t.timestamp.num))]}
    \cup {[t EXCEPT !.expiresAt = t.expiresAt + 1000]}
    \cup {[t EXCEPT !.location = NoLocation],
          [t EXCEPT !.location = Location(t.location.latitude, t.location.longitude,
                                             t.location.radius + 100)]}

\* a payload for a session id that has no document, signed with the server's
\* secret (the fallback secret is in the source for everyone to read)
UnknownSessionPayload ==
    generateQRPayload(SessionName(MaxSessions + 1), "c1", "f1",
                      Location(ClassLat, ClassLon, DefaultRadius), 1000, 0)

\* qrData built from the issued payloads as they are: the payload, the payload
\* with another signature, text that is no JSON object, and the payload of an
\* unknown session
PlainInputs ==
    {QrInvalid, QrNull, QrObject(UnknownSessionPayload)}
    \cup {QrObject(t) : t \in issued}
    \cup {QrObject([t EXCEPT !.signature = "forged"]) : t \in issued}

\* qrData built by altering one member of an issued payload
AlteredInputs == {QrObject(a) : a \in UNION {Altered(t) : t \in issued}}

\* no request is in progress
NoneInProgress == \A p \in Procs : req[p].pc = "idle"

\* the process that serves the requests when they are served one by one
Server == {"p1"}

(***************************************************************************)
(* SpecScan: one course owner starts and stops sessions and students scan, *)
(* one request after the other, with the issued payloads, from 30 m and    *)
(* from 60 m away.                                                         *)
(***************************************************************************)
NextScan ==
    \/ Tick
    \/ \E p \in Server :
          NoneInProgress
          /\ GenStart(p, "f1", "c1", Num(ClassLat), Num(ClassLon), DefaultRadius, 1)
    \/ \E p \in Server : GenGetCourse(p)
    \/ \E p \in Server : GenAddSession(p)
    \/ \E p \in Server : GenSetQR(p)
    \/ \E p \in Server, uid \in Students, qrData \in PlainInputs,
          pos \in {<<Num(30), Num(ClassLon)>>, <<Num(120), Num(ClassLon)>>} :
          NoneInProgress /\ ScanStart(p, uid, qrData, pos[1], pos[2])
    \/ \E p \in Server : ScanGetSession(p)
    \/ \E p \in Server : ScanQueryEnrollment(p)
    \/ \E p \in Server : ScanQueryAttendance(p)
    \/ \E p \in Server : ScanAddAttendance(p)
    \/ \E p \in Server : ScanUpdateSession(p)
    \/ \E p \in Server, sessionId \in SessionIdUniverse :
          NoneInProgress /\ StopStart(p, "f1", sessionId)
    \/ \E p \in Server : StopUpdateSession(p)
    \/ \E p \in Server : StopDeleteQR(p)

SpecScan == Init /\ [][NextScan]_vars

(***************************************************************************)
(* Properties of the scan path, checked under SpecScan.                    *)
(***************************************************************************)
\* the attendance documents of (sessionId, uid) whose status is present
PresentDocs(sessionId, uid) ==
    DocIds(attendance, LAMBDA a : a.sessionId = sessionId /\ a.studentId = uid
                                  /\ a.status = "present")

\* the students with a present document in the session
PresentStudents(sessionId) == {u \in Students : PresentDocs(sessionId, u) # {}}

\* a scan of uid with a payload of this session and course has written its
\* present document
MarkedByScan(sessionId, uid, courseId) ==
    DocIds(attendance, LAMBDA a : a.sessionId = sessionId /\ a.studentId = uid
                                  /\ a.courseId = courseId /\ a.markedBy = "student"
                                  /\ a.status = "present") # {}

\* the stages of a scan request before its first write
BeforeWrite == {"getSession", "queryEnrollment", "queryAttendance"}

\* C1: a scan of a student who has already scanned a payload of the same
\* session (the first scan answered, the payload valid and unexpired when the
\* second request arrived) goes through its checks without writing anything
\* and is answered AlreadyMarked; then (session, student) has exactly one
\* present document and the present-count counts that student once.
C1_SecondScanAlreadyMarked ==
    [][\A p \in Procs :
          (/\ req[p].kind = "scan" /\ req[p].pc \in BeforeWrite
           /\ MarkedByScan(req[p].qrData.payload.sessionId, req[p].uid,
                           req[p].qrData.payload.courseId)
           /\ req'[p] # req[p])
          => /\ attendance' = attendance
             /\ sessions' = sessions
             /\ \/ req'[p].kind = "scan" /\ req'[p].pc \in {"queryEnrollment", "queryAttendance"}
                \/ /\ req'[p] = Idle
                   /\ sent'.kind = "scan" /\ sent'.resp.error = "AlreadyMarked"
                   /\ Cardinality(PresentDocs(req[p].qrData.payload.sessionId,
                                              req[p].uid)) = 1
                   /\ sessions[req[p].qrData.payload.sessionId].presentCount
                        = Cardinality(PresentStudents(req[p].qrData.payload.sessionId))
      ]_vars

\* C1 witness: a second scan has just been answered AlreadyMarked
C1_Witness ==
    /\ sent.kind = "scan" /\ sent.resp.error = "AlreadyMarked"
    /\ MarkedByScan(sent.qrData.payload.sessionId, sent.uid, sent.qrData.payload.courseId)
    /\ sessions[sent.qrData.payload.sessionId].presentCount = 1

\* the session has been stopped: both writes of the stop request are done
Stopped(sessionId) ==
    /\ SessionDoc(sessionId).exists
    /\ ~SessionDoc(sessionId).isActive
    /\ ~activeQRs[sessionId].exists

\* C4 as claimed: no scan is accepted for a session that has been stopped
\* (requests are served one by one, so the stop was answered before the scan
\* arrived).
C4_NoScanAfterStop ==
    ~(/\ sent.kind = "scan" /\ sent.resp.error = "OK"
      /\ Stopped(sent.qrData.payload.sessionId))

\* the scan request that arrives in this step at process p, if any
ScanArrives(p) ==
    /\ req[p].pc = "idle"
    /\ \/ req'[p].kind = "scan"
       \/ req'[p] = Idle /\ sent'.kind = "scan"

ArrivedScan(p) == IF req'[p].kind = "scan" THEN req'[p] ELSE sent'

\* C5 as claimed: a scan of an issued, correctly signed payload is answered
\* Expired exactly when the time of arrival is at or after expiresAt.
C5_ExpiredFromExpiresAt ==
    [][\A p \in Server :
          (/\ ScanArrives(p)
           /\ ArrivedScan(p).qrData.json = "object"
           /\ ArrivedScan(p).qrData.payload \in issued
           /\ verifyQRSignature(ArrivedScan(p).qrData.payload))
          => ((DateNow >= ArrivedScan(p).qrData.payload.expiresAt)
                <=> (sent'.kind = "scan" /\ sent'.resp.error = "Expired"))
      ]_vars

\* the answers that reject a scan
ScanRejections ==
    {"InvalidFormat", "InvalidSignature", "Expired", "NotFound", "Forbidden",
     "AlreadyMarked", "OutOfRange"}

\* C10: the step that rejects a scan leaves every collection unchanged and is
\* taken before the request's first write, and every step that takes a scan
\* to a stage before its first write leaves the collections unchanged: a
\* rejected scan has written nothing.
C10_RejectedScanWritesNothing ==
    [][/\ (sent'.kind = "scan" /\ sent'.resp.error \in ScanRejections)
            => /\ UNCHANGED <<courses, enrollments, sessions, activeQRs, attendance>>
               /\ \A p \in Procs : req'[p] # req[p] => req[p].pc \in BeforeWrite
       /\ \A p \in Procs :
            (req'[p] # req[p] /\ req'[p].kind = "scan"
             /\ req'[p].pc \in BeforeWrite \cup {"addAttendance"})
            => UNCHANGED <<courses, enrollments, sessions, activeQRs, attendance>>
      ]_vars

\* C10 witness: a scan has been rejected at its last check, 60 m from the
\* class with 50 m allowed
C10_Witness ==
    /\ sent.kind = "scan" /\ sent.resp.error = "OutOfRange"
    /\ sent.resp.distance = 60 /\ sent.resp.maxDistance = 50

(***************************************************************************)
(* SpecTamper: as SpecScan, with students presenting issued payloads in    *)
(* which one member has been altered and the signature kept.               *)
(***************************************************************************)
NextTamper ==
    \/ Tick
    \/ \E p \in Server :
          NoneInProgress
          /\ GenStart(p, "f1", "c1", Num(ClassLat), Num(ClassLon), DefaultRadius, 1)
    \/ \E p \in Server : GenGetCourse(p)
    \/ \E p \in Server : GenAddSession(p)
    \/ \E p \in Server : GenSetQR(p)
    \/ \E p \in Server, uid \in Students, qrData \in AlteredInputs,
          pos \in {<<Num(30), Num(ClassLon)>>, <<Num(120), Num(ClassLon)>>} :
          NoneInProgress /\ ScanStart(p, uid, qrData, pos[1], pos[2])
    \/ \E p \in Server : ScanGetSession(p)
    \/ \E p \in Server : ScanQueryEnrollment(p)
    \/ \E p \in Server : ScanQueryAttendance(p)
    \/ \E p \in Server : ScanAddAttendance(p)
    \/ \E p \in Server : ScanUpdateSession(p)

SpecTamper == Init /\ [][NextTamper]_vars

\* C6 as claimed: every present document written by a scan belongs to a
\* student with an active enrollment in the course of the document's session.
C6_ScanOnlyIfEnrolledInSessionCourse ==
    \A i \in 1..Len(attendance) :
        attendance[i].markedBy = "student"
        => EnrollmentSnapshot(attendance[i].studentId,
                              SessionDoc(attendance[i].sessionId).courseId) # {}

\* C8 as claimed: a payload presented in a scan that carries the signature of
\* an issued payload but another sessionId or timestamp fails
\* verifyQRSignature.
C8_AlteredIdOrTimestampRejected ==
    (sent.kind = "scan" /\ sent.qrData.json = "object")
    => \A t \in issued :
          (/\ sent.qrData.payload.signature = t.signature
           /\ \/ sent.qrData.payload.sessionId # t.sessionId
              \/ sent.qrData.payload.timestamp # t.timestamp)
          => ~verifyQRSignature(sent.qrData.payload)

\* C9 as claimed: a scan presenting an issued payload whose courseId,
\* facultyId, expiresAt or geofence has been altered is rejected (the claim
\* names the rejection: InvalidSignature) and records no attendance; stated
\* here by what every rejection has in common, the scan is not answered OK.
C9_AlteredUnsignedMemberRejected ==
    (sent.kind = "scan" /\ sent.qrData.json = "object")
    => \A t \in issued :
          (/\ sent.qrData.payload.signature = t.signature
           /\ sent.qrData.payload.sessionId = t.sessionId
           /\ sent.qrData.payload.timestamp = t.timestamp
           /\ \/ sent.qrData.payload.courseId # t.courseId
              \/ sent.qrData.payload.facultyId # t.facultyId
              \/ sent.qrData.payload.expiresAt # t.expiresAt
              \/ sent.qrData.payload.location # t.location)
          => sent.resp.error # "OK"

(***************************************************************************)
(* Spec: requests run concurrently, one per process, and interleave at     *)
(* their awaits.  One owner starts a session; students scan the issued     *)
(* payload from within the geofence; the owner sends manual attendance.    *)
(***************************************************************************)
Next ==
    \/ \E p \in Procs :
          GenStart(p, "f1", "c1", Num(ClassLat), Num(ClassLon), DefaultRadius, 1)
    \/ \E p \in Procs : GenGetCourse(p)
    \/ \E p \in Procs : GenAddSession(p)
    \/ \E p \in Procs : GenSetQR(p)
    \/ \E p \in Procs, uid \in Students, t \in issued :
          ScanStart(p, uid, QrObject(t), Num(30), Num(ClassLon))
    \/ \E p \in Procs : ScanGetSession(p)
    \/ \E p \in Procs : ScanQueryEnrollment(p)
    \/ \E p \in Procs : ScanQueryAttendance(p)
    \/ \E p \in Procs : ScanAddAttendance(p)
    \/ \E p \in Procs : ScanUpdateSession(p)
    \/ \E p \in Procs, sessionId \in SessionIdUniverse, ids \in Arrays(MaxArr) :
          ManualStart(p, "f1", sessionId, TRUE, ids)
    \/ \E p \in Procs : ManualGetSession(p)
    \/ \E p \in Procs : ManualQueryAttendance(p)
    \/ \E p \in Procs : ManualAdd(p)
    \/ \E p \in Procs : ManualRemove(p)
    \/ \E p \in Procs : ManualUpdateCount(p)

Spec == Init /\ [][Next]_vars

\* the attendance documents of (sessionId, uid) written by a scan
ScanDocs(sessionId, uid) ==
    DocIds(attendance, LAMBDA a : a.sessionId = sessionId /\ a.studentId = uid
                                  /\ a.markedBy = "student")

\* C2 as claimed: of the concurrent scans of one student with one payload at
\* most one succeeds: no state holds two documents written by scans for one
\* (session, student).
C2_AtMostOneScanSucceeds ==
    \A s \in SessionIdUniverse, u \in Students : Cardinality(ScanDocs(s, u)) <= 1

\* C3 as claimed: at most one attendance document with status present for
\* each (session, student).
C3_AtMostOnePresentDoc ==
    \A s \in SessionIdUniverse, u \in Students : Cardinality(PresentDocs(s, u)) <= 1

(***************************************************************************)
(* SpecGeo: sessions with each geofence radius, scanned from each          *)
(* position, one request after the other.                                  *)
(***************************************************************************)
NextGeo ==
    \/ \E p \in Server, radius \in Radii :
          NoneInProgress
          /\ GenStart(p, "f1", "c1", Num(ClassLat), Num(ClassLon), radius, 1)
    \/ \E p \in Server : GenGetCourse(p)
    \/ \E p \in Server : GenAddSession(p)
    \/ \E p \in Server : GenSetQR(p)
    \/ \E p \in Server, uid \in Students, t \in issued, pos \in Positions :
          NoneInProgress /\ ScanStart(p, uid, QrObject(t), pos[1], pos[2])
    \/ \E p \in Server : ScanGetSession(p)
    \/ \E p \in Server : ScanQueryEnrollment(p)
    \/ \E p \in Server : ScanQueryAttendance(p)
    \/ \E p \in Server : ScanAddAttendance(p)
    \/ \E p \in Server : ScanUpdateSession(p)

SpecGeo == Init /\ [][NextGeo]_vars

\* C7 as claimed: a scan whose payload carries a geofence is accepted only
\* with an observed position within the radius of the geofence center.
C7_AcceptedOnlyWithinGeofence ==
    (/\ sent.kind = "scan" /\ sent.resp.error = "OK"
     /\ sent.qrData.payload.location.present)
    => /\ sent.latitude.defined /\ sent.longitude.defined
       /\ DistanceSq(sent.latitude.val, sent.longitude.val,
                     sent.qrData.payload.location.latitude,
                     sent.qrData.payload.location.longitude)
            <= sent.qrData.payload.location.radius * sent.qrData.payload.location.radius

(***************************************************************************)
(* SpecStart: requests served one after the other.  Either faculty member  *)
(* asks for a session of either course or of a course that has no          *)
(* document, and stops sessions.                                           *)
(***************************************************************************)
\* a course id without a document
MissingCourse == "c0"

NextStart ==
    \/ Tick
    \/ \E p \in Server, uid \in Faculty, courseId \in Courses \cup {MissingCourse} :
          NoneInProgress
          /\ GenStart(p, uid, courseId, Num(ClassLat), Num(ClassLon), DefaultRadius, 1)
    \/ \E p \in Server : GenGetCourse(p)
    \/ \E p \in Server : GenAddSession(p)
    \/ \E p \in Server : GenSetQR(p)
    \/ \E p \in Server, uid \in Faculty, sessionId \in SessionIdUniverse :
          NoneInProgress /\ StopStart(p, uid, sessionId)
    \/ \E p \in Server : StopUpdateSession(p)
    \/ \E p \in Server : StopDeleteQR(p)

SpecStart == Init /\ [][NextStart]_vars

(***************************************************************************)
(* SpecManual: requests served one after the other.  The owner of course   *)
(* c1 starts one session, students scan the issued payload from within the *)
(* geofence, and either faculty member sends manual attendance for any     *)
(* session id.  The clock ticks once, between two requests.                *)
(***************************************************************************)
NextManual ==
    \/ NoneInProgress /\ now = 0 /\ Tick
    \/ \E p \in Server :
          NoneInProgress /\ NumSessions = 0
          /\ GenStart(p, "f1", "c1", Num(ClassLat), Num(ClassLon), DefaultRadius, 1)
    \/ \E p \in Server : GenGetCourse(p)
    \/ \E p \in Server : GenAddSession(p)
    \/ \E p \in Server : GenSetQR(p)
    \/ \E p \in Server, uid \in Students, t \in issued :
          NoneInProgress /\ ScanStart(p, uid, QrObject(t), Num(30), Num(ClassLon))
    \/ \E p \in Server : ScanGetSession(p)
    \/ \E p \in Server : ScanQueryEnrollment(p)
    \/ \E p \in Server : ScanQueryAttendance(p)
    \/ \E p \in Server : ScanAddAttendance(p)
    \/ \E p \in Server : ScanUpdateSession(p)
    \/ \E p \in Server, uid \in Faculty, sessionId \in SessionIdUniverse,
          ids \in Arrays(MaxArr) :
          NoneInProgress /\ ManualStart(p, uid, sessionId, TRUE, ids)
    \/ \E p \in Server : ManualGetSession(p)
    \/ \E p \in Server : ManualQueryAttendance(p)
    \/ \E p \in Server : ManualAdd(p)
    \/ \E p \in Server : ManualRemove(p)
    \/ \E p \in Server : ManualUpdateCount(p)

SpecManual == Init /\ [][NextManual]_vars

\* C11 as claimed: whenever no request is in progress, the presentCount of
\* every session is the number of students with a present document for it.
C11_PresentCountIsPresentStudents ==
    NoneInProgress
    => \A s \in SessionIdUniverse :
          SessionDoc(s).exists
          => SessionDoc(s).presentCount = Cardinality(PresentStudents(s))

\* toAdd and toRemove as a manual-attendance request for (sessionId, ids)
\* computes them from the attendance collection of the state it reads
ToAddNow(sessionId, ids) ==
    Filter(ids, Range(ids) \ CurrentPresentIds(CurrentSnapshot(sessionId)))
ToRemoveNow(sessionId, ids) ==
    CurrentPresentIds(CurrentSnapshot(sessionId)) \ Range(ids)

\* C12 as claimed: a manual-attendance request that arrives right after the
\* same caller's request for the same session and the same presentStudentIds
\* was answered OK finds nothing to add and nothing to remove (requests are
\* served one by one: the collections it will read are those of the state in
\* which it arrives), so it reports added = 0 and removed = 0 and writes
\* nothing.
C12_RepeatedManualIsNoOp ==
    [][\A p \in Server :
          (/\ sent.kind = "manual" /\ sent.resp.error = "OK"
           /\ req[p].pc = "idle" /\ req'[p].kind = "manual"
           /\ req'[p].uid = sent.uid
           /\ req'[p].sessionId = sent.sessionId
           /\ req'[p].presentStudentIds = sent.presentStudentIds)
          => /\ ToAddNow(sent.sessionId, sent.presentStudentIds) = << >>
             /\ ToRemoveNow(sent.sessionId, sent.presentStudentIds) = {}
      ]_vars

\* C13 as claimed: when a manual-attendance request for session s with array
\* P is answered OK, the students with a present document for s are the ids
\* of P, added is the number of ids of P that were not present before,
\* removed the number of present students that are not in P, and the
\* presentCount has changed by added - removed.
C13_ManualReconciles ==
    [][\A s \in SessionIdUniverse :
          (sent'.kind = "manual" /\ sent'.resp.error = "OK" /\ sent'.sessionId = s)
          => /\ PresentStudents(s)' = Range(sent'.presentStudentIds)
             /\ sent'.added = Cardinality(Range(sent'.presentStudentIds)
                                          \ CurrentPresentIds(sent'.snapshot))
             /\ sent'.removed = Cardinality(CurrentPresentIds(sent'.snapshot)
                                            \ Range(sent'.presentStudentIds))
             /\ sessions'[s].presentCount
                  = sessions[s].presentCount + sent'.added - sent'.removed
      ]_vars

(***************************************************************************)
(* Properties of starting and stopping a session, checked under SpecStart. *)
(***************************************************************************)
\* C14 as claimed: a stop request for a session that has no document is
\* answered NotFound, one by a caller who is not the session's faculty is
\* answered Forbidden, and no step of such a request changes a session
\* document or a stored payload.
C14_StopOnlyByOwner ==
    [][\A p \in Server :
          (/\ req[p].kind = "stop" /\ req'[p] # req[p]
           /\ \/ ~SessionDoc(req[p].sessionId).exists
              \/ SessionDoc(req[p].sessionId).facultyId # req[p].uid)
          => /\ UNCHANGED <<sessions, activeQRs>>
             /\ sent'.kind = "stop"
             /\ sent'.resp.error = IF ~SessionDoc(req[p].sessionId).exists
                                   THEN "NotFound" ELSE "Forbidden"
      ]_vars

\* C15: a generate-qr request writes nothing when it arrives and nothing in
\* its course check; the course check answers NotFound when the course has
\* no document, Forbidden when the caller is not the course's faculty, and
\* lets the request go on otherwise; a session document appears only in the
\* step of a request whose caller is the faculty of its existing course; and
\* when the request is answered OK, the session document exists, is active
\* with presentCount 0, and activeQRs holds a payload under the session's id.
C15_StartSessionOnlyByOwner ==
    [][\A p \in Server :
          /\ (req[p].pc = "idle" /\ (req'[p].kind = "generate" \/ sent'.kind = "generate"))
             => UNCHANGED <<sessions, activeQRs>>
          /\ (req[p].kind = "generate" /\ req[p].pc = "getCourse" /\ req'[p] # req[p])
             => /\ UNCHANGED <<sessions, activeQRs>>
                /\ IF ~CourseDoc(req[p].courseId).exists
                   THEN sent'.kind = "generate" /\ sent'.resp.error = "NotFound"
                   ELSE IF CourseDoc(req[p].courseId).facultyId # req[p].uid
                   THEN sent'.kind = "generate" /\ sent'.resp.error = "Forbidden"
                   ELSE req'[p].kind = "generate" /\ req'[p].pc = "addSession"
          /\ \A s \in SessionIdUniverse :
                ((~sessions[s].exists /\ sessions'[s].exists)
                 \/ (~activeQRs[s].exists /\ activeQRs'[s].exists))
                => /\ req[p].kind = "generate"
                   /\ CourseDoc(req[p].courseId).exists
                   /\ CourseDoc(req[p].courseId).facultyId = req[p].uid
          /\ (sent'.kind = "generate" /\ sent'.resp.error = "OK")
             => /\ sessions'[sent'.sessionId].exists
                /\ sessions'[sent'.sessionId].isActive
                /\ sessions'[sent'.sessionId].presentCount = 0
                /\ sessions'[sent'.sessionId].courseId = sent'.courseId
                /\ sessions'[sent'.sessionId].facultyId = sent'.uid
                /\ activeQRs'[sent'.sessionId].exists
                /\ activeQRs'[sent'.sessionId].payload.sessionId = sent'.sessionId
      ]_vars

\* C15 witness: a request of a faculty member for a session of the other
\* one's course has been answered Forbidden and no session or payload exists
C15_Witness ==
    /\ sent.kind = "generate" /\ sent.resp.error = "Forbidden"
    /\ CourseDoc(sent.courseId).exists
    /\ NumSessions = 0
    /\ \A s \in SessionIdUniverse : ~activeQRs[s].exists

(***************************************************************************)
(* Properties of manual attendance, checked under SpecManual.              *)
(***************************************************************************)
\* C16: a manual-attendance request writes nothing when it arrives and
\* nothing in its session check; the session check answers NotFound when the
\* session has no document, Forbidden when the caller is not the session's
\* faculty, and lets the request go on otherwise; and every step of a
\* manual-attendance request that changes an attendance document or a
\* session document belongs to a request of the session's faculty.
C16_ManualOnlyByOwner ==
    [][\A p \in Server :
          /\ (req[p].pc = "idle" /\ (req'[p].kind = "manual" \/ sent'.kind = "manual"))
             => UNCHANGED <<attendance, sessions>>
          /\ (req[p].kind = "manual" /\ req[p].pc = "getSession" /\ req'[p] # req[p])
             => /\ UNCHANGED <<attendance, sessions>>
                /\ IF ~SessionDoc(req[p].sessionId).exists
                   THEN sent'.kind = "manual" /\ sent'.resp.error = "NotFound"
                   ELSE IF SessionDoc(req[p].sessionId).facultyId # req[p].uid
                   THEN sent'.kind = "manual" /\ sent'.resp.error = "Forbidden"
                   ELSE req'[p].kind = "manual" /\ req'[p].pc = "queryAttendance"
          /\ (req[p].kind = "manual" /\ (attendance' # attendance \/ sessions' # sessions))
             => /\ SessionDoc(req[p].sessionId).exists
                /\ SessionDoc(req[p].sessionId).facultyId = req[p].uid
      ]_vars

\* C16 witness: a request of a faculty member who is not the session's
\* faculty, naming a student who is not present, has been answered Forbidden
C16_Witness ==
    /\ sent.kind = "manual" /\ sent.resp.error = "Forbidden"
    /\ SessionDoc(sent.sessionId).exists
    /\ Range(sent.presentStudentIds) \ PresentStudents(sent.sessionId) # {}

\* the attendance documents of a session
SessionDocs(sessionId) == DocIds(attendance, LAMBDA a : a.sessionId = sessionId)

\* C17: no step removes an attendance document or takes one out of its
\* session; a step of a manual-attendance request leaves every document as
\* it is, markedAt included, except a present document of its session whose
\* student is among the request's removals, which it patches to absent,
\* marked by faculty and manual, every other member kept; and the documents
\* it adds are present documents of its session for students among its
\* additions.
C17_ManualTouchesOnlyDelta ==
    [][/\ Len(attendance') >= Len(attendance)
       /\ \A s \in SessionIdUniverse : SessionDocs(s) \subseteq SessionDocs(s)'
       /\ \A p \in Server :
            (req[p].kind = "manual")
            => /\ \A i \in 1..Len(attendance) :
                    \/ attendance'[i] = attendance[i]
                    \/ /\ req[p].pc = "apply"
                       /\ attendance[i].sessionId = req[p].sessionId
                       /\ attendance[i].studentId \in req[p].toRemove
                       /\ attendance[i].status = "present"
                       /\ attendance'[i] = [attendance[i] EXCEPT !.status = "absent",
                                                                !.markedBy = "faculty",
                                                                !.manual = TRUE]
               /\ \A i \in (Len(attendance) + 1)..Len(attendance') :
                    /\ req[p].pc = "apply"
                    /\ attendance'[i].sessionId = req[p].sessionId
                    /\ attendance'[i].studentId \in Range(req[p].toAdd)
                    /\ attendance'[i].status = "present"
                    /\ attendance'[i].manual
      ]_vars

\* C17 witness: a manual-attendance request answered OK has removed a
\* student whose document, written earlier, is now absent and manual, while
\* another document of the session is still present
C17_Witness ==
    /\ sent.kind = "manual" /\ sent.resp.error = "OK" /\ sent.removed > 0
    /\ \E i \in SessionDocs(sent.sessionId) :
          /\ attendance[i].status = "absent" /\ attendance[i].manual
          /\ attendance[i].markedAt < now
    /\ \E i \in SessionDocs(sent.sessionId) : attendance[i].status = "present"

(***************************************************************************)
(* SpecEnroll: requests run concurrently, one per process.  Students join  *)
(* courses by code, a faculty member enrolls students by e-mail, and       *)
(* faculty create classes.                                                 *)
(***************************************************************************)
NextEnroll ==
    \/ \E p \in Procs, uid \in Students, joinCode \in {"ABC234", "abc234", "XYZ789", ""} :
          JoinStart(p, uid, joinCode)
    \/ \E p \in Procs : JoinFindCourse(p)
    \/ \E p \in Procs : JoinCheckExisting(p)
    \/ \E p \in Procs : JoinAddEnrollment(p)
    \/ \E p \in Procs : JoinUpdateCount(p)
    \/ \E p \in Procs, courseId \in Courses,
          studentEmail \in {StudentEmail(u) : u \in Students} \cup {UnknownEmail} :
          EnrollStart(p, "f1", courseId, studentEmail)
    \/ \E p \in Procs : EnrollFindStudent(p)
    \/ \E p \in Procs : EnrollCheckExisting(p)
    \/ \E p \in Procs : EnrollAddEnrollment(p)
    \/ \E p \in Procs, uid \in Faculty, joinCode \in JoinCodes :
          ClassStart(p, uid, joinCode)
    \/ \E p \in Procs, nextCode \in JoinCodes : ClassCheckCode(p, nextCode)
    \/ \E p \in Procs : ClassAddCourse(p)

SpecEnroll == Init /\ [][NextEnroll]_vars

\* C18 as claimed: at most one active enrollment for each (student, course).
C18_AtMostOneActiveEnrollment ==
    \A u \in Students, c \in CourseIdUniverse :
        Cardinality(EnrollmentSnapshot(u, c)) <= 1

\* C19 as claimed: no two course documents carry the same join code.
C19_JoinCodesUnique ==
    \A c, d \in CourseIdUniverse :
        (/\ c # d /\ courses[c].exists /\ courses[d].exists
         /\ courses[c].joinCode # NoJoinCode)
        => courses[c].joinCode # courses[d].joinCode

\* C20 as claimed, checked under SpecGeo: a scan that reaches the geolocation
\* check with a position whose distance from the geofence center is the
\* radius is accepted, and one whose distance is the radius plus one is
\* answered OutOfRange with that distance and the radius as the allowed
\* maximum.
C20_GeofenceBoundary ==
    (/\ sent.kind = "scan" /\ sent.resp.error \in {"OK", "OutOfRange"}
     /\ sent.qrData.payload.location.present
     /\ sent.latitude.defined /\ sent.longitude.defined)
    => LET location == sent.qrData.payload.location
           distanceSq == DistanceSq(sent.latitude.val, sent.longitude.val,
                                    location.latitude, location.longitude)
       IN /\ distanceSq = location.radius * location.radius
             => sent.resp.error = "OK"
          /\ distanceSq = (location.radius + 1) * (location.radius + 1)
             => /\ sent.resp.error = "OutOfRange"
                /\ sent.resp.distance = location.radius + 1
                /\ sent.resp.maxDistance = location.radius

(***************************************************************************)
(* SpecCount: requests run concurrently, one per process.  The owner of    *)
(* course c1 enrolls students in it and starts a session; students scan    *)
(* the issued payload from within the geofence.                            *)
(***************************************************************************)
NextCount ==
    \/ \E p \in Procs, u \in Students : EnrollStart(p, "f1", "c1", StudentEmail(u))
    \/ \E p \in Procs : EnrollFindStudent(p)
    \/ \E p \in Procs : EnrollCheckExisting(p)
    \/ \E p \in Procs : EnrollAddEnrollment(p)
    \/ \E p \in Procs :
          GenStart(p, "f1", "c1", Num(ClassLat), Num(ClassLon), DefaultRadius, 1)
    \/ \E p \in Procs : GenGetCourse(p)
    \/ \E p \in Procs : GenAddSession(p)
    \/ \E p \in Procs : GenSetQR(p)
    \/ \E p \in Procs, uid \in Students, t \in issued :
          ScanStart(p, uid, QrObject(t), Num(30), Num(ClassLon))
    \/ \E p \in Procs : ScanGetSession(p)
    \/ \E p \in Procs : ScanQueryEnrollment(p)
    \/ \E p \in Procs : ScanQueryAttendance(p)
    \/ \E p \in Procs : ScanAddAttendance(p)
    \/ \E p \in Procs : ScanUpdateSession(p)

SpecCount == Init /\ [][NextCount]_vars

\* the attendance documents of a session written by scans
SessionScanDocs(sessionId) ==
    DocIds(attendance, LAMBDA a : a.sessionId = sessionId /\ a.markedBy = "student")

\* the scans of a session that have written their document and not yet
\* incremented presentCount
PendingIncrements(sessionId) ==
    {p \in Procs : /\ req[p].kind = "scan" /\ req[p].pc = "updateSession"
                   /\ req[p].qrData.payload.sessionId = sessionId}

\* C21: the presentCount of a session is the number of documents scans have
\* written for it less the scans still to increment it; when every scan has
\* been answered, it is the number of scans that succeeded, under every
\* interleaving.
C21_NoLostIncrement ==
    \A s \in SessionIdUniverse :
        SessionDoc(s).exists
        => SessionDoc(s).presentCount
             = Cardinality(SessionScanDocs(s)) - Cardinality(PendingIncrements(s))

\* C21 witness: both students have scanned the payload, every scan has been
\* answered, and the presentCount is 2
C21_Witness ==
    /\ NoneInProgress
    /\ sent.kind = "scan" /\ sent.resp.error = "OK"
    /\ \E s \in SessionIdUniverse :
          /\ SessionDoc(s).exists /\ SessionDoc(s).presentCount = 2
          /\ \A u \in Students : ScanDocs(s, u) # {}
          /\ \E i, j \in SessionScanDocs(s) :
                i < j /\ attendance[i].studentId # sent.uid
                      /\ attendance[j].studentId = sent.uid

\* C25 as claimed: the document of a scan and its increment take effect as
\* one: in no state does a session hold a document written by a scan that
\* its presentCount does not count.
C25_RecordAndIncrementAreOneUnit ==
    \A s \in SessionIdUniverse :
        SessionDoc(s).exists
        => SessionDoc(s).presentCount = Cardinality(SessionScanDocs(s))

(***************************************************************************)
(* More properties of the scan path, checked under SpecScan.               *)
(***************************************************************************)
\* C22: the clock never goes back; a scan is answered Expired only when the
\* time is past the expiresAt of its payload; and a scan that arrives with a
\* payload whose expiresAt is past is rejected on arrival and changes no
\* session and no attendance document.  So once a scan of a payload has been
\* answered Expired, every later scan of that payload is rejected.
C22_ExpiredStaysExpired ==
    [][/\ now' >= now
       /\ (sent'.kind = "scan" /\ sent'.resp.error = "Expired")
          => DateNow > sent'.qrData.payload.expiresAt
       /\ \A p \in Server :
            (/\ ScanArrives(p)
             /\ ArrivedScan(p).qrData.json = "object"
             /\ DateNow > ArrivedScan(p).qrData.payload.expiresAt)
            => /\ req'[p] = Idle
               /\ sent'.kind = "scan" /\ sent'.resp.error \in ScanRejections
               /\ UNCHANGED <<sessions, attendance>>
      ]_vars

\* C22 witness: a scan of an issued payload has been answered Expired at the
\* last instant of the clock, a second after the payload expired
C22_Witness ==
    /\ sent.kind = "scan" /\ sent.resp.error = "Expired"
    /\ sent.qrData.payload \in issued
    /\ DateNow >= sent.qrData.payload.expiresAt + 1000

\* C27: the answer of a scan is the error of the first failing check in the
\* order format, signature, expiry, session, enrollment, already marked,
\* geofence: qrData that is no payload object is answered InvalidFormat, a
\* payload with a wrong signature is answered InvalidSignature whatever its
\* expiry, and every later answer is given to a correctly signed payload; a
\* student with a document for the session is never answered OutOfRange.
C27_FirstFailingCheckAnswers ==
    sent.kind = "scan"
    => /\ sent.qrData.json # "object" => sent.resp.error = "InvalidFormat"
       /\ (sent.qrData.json = "object" /\ ~verifyQRSignature(sent.qrData.payload))
          => sent.resp.error = "InvalidSignature"
       /\ sent.resp.error = "OutOfRange"
          => ExistingAttendance(sent.qrData.payload.sessionId, sent.uid) = {}

(***************************************************************************)
(* Scans after a manual correction, checked under SpecManual.              *)
(***************************************************************************)
\* C24: a scan is answered AlreadyMarked only if a present document of the
\* student exists for the session; a student whose only document was patched
\* to absent is marked present by the next scan.
C24_AlreadyMarkedOnlyIfPresent ==
    (sent.kind = "scan" /\ sent.resp.error = "AlreadyMarked")
    => PresentDocs(sent.qrData.payload.sessionId, sent.uid) # {}

(***************************************************************************)
(* The count under concurrent scans and manual corrections, checked under  *)
(* Spec.                                                                   *)
(***************************************************************************)
\* C28: the presentCount of a session is never negative, whatever the
\* interleaving of the scans and the manual-attendance requests
C28_PresentCountNotNegative ==
    \A s \in SessionIdUniverse :
        SessionDoc(s).exists => SessionDoc(s).presentCount >= 0

(***************************************************************************)
(* GET /api/faculty/session/:sessionId/attendance                          *)
(***************************************************************************)
\* the request arrives behind verifyToken, which admits every signed-in user
\* (lines 848-850)
AttendanceStart(p, uid, sessionId) ==
    /\ req[p].pc = "idle"
    /\ Continue(p, [kind |-> "sessionAttendance", pc |-> "getSession", uid |-> uid,
                    sessionId |-> sessionId, attendees |-> << >>,
                    presentCount |-> 0, totalAttendees |-> 0, resp |-> Pending])
    /\ UNCHANGED <<now, courses, enrollments, sessions, activeQRs, attendance, issued>>

\* sessions.doc(sessionId).get() and the 404 (lines 852-858)
AttendanceGetSession(p) ==
    /\ req[p].kind = "sessionAttendance" /\ req[p].pc = "getSession"
    /\ IF ~SessionDoc(req[p].sessionId).exists
       THEN Respond(p, req[p], Response("NotFound"))
       ELSE Continue(p, [req[p] EXCEPT !.pc = "queryAttendance"])
    /\ UNCHANGED <<now, courses, enrollments, sessions, activeQRs, attendance, issued>>

\* the orders in which the query may return the documents of the session:
\* markedAt descending, documents of one instant in any order (lines 861-864)
AttendanceSnapshots(sessionId) ==
    LET ids == SessionDocs(sessionId)
        n == Cardinality(ids)
    IN {order \in [1..n -> ids] :
          /\ \A i, j \in 1..n : i # j => order[i] # order[j]
          /\ \A i, j \in 1..n :
                i < j => attendance[order[i]].markedAt >= attendance[order[j]].markedAt}

\* the entry of one document in attendees (lines 874-882)
Attendee(id) ==
    [id |-> id, studentId |-> attendance[id].studentId,
     status |-> attendance[id].status, markedAt |-> attendance[id].markedAt,
     distance |-> attendance[id].distanceFromClass]

\* the attendance query, the loop that builds attendees (its reads of the
\* students collection change nothing) and the response (lines 860-890)
AttendanceQuery(p) ==
    /\ req[p].kind = "sessionAttendance" /\ req[p].pc = "queryAttendance"
    /\ \E order \in AttendanceSnapshots(req[p].sessionId) :
          LET attendees == [k \in DOMAIN order |-> Attendee(order[k])]
          IN Respond(p, [req[p] EXCEPT
                           !.attendees = attendees,
                           !.presentCount =
                               Cardinality({k \in DOMAIN attendees :
                                               attendees[k].status = "present"}),
                           !.totalAttendees = Len(attendees)],
                     Response("OK"))
    /\ UNCHANGED <<now, courses, enrollments, sessions, activeQRs, attendance, issued>>

(***************************************************************************)
(* Requests served one by one: a session of f1, scans of its payload and   *)
(* requests for the attendance of a session by every user.                 *)
(***************************************************************************)
NextAttendance ==
    \/ Tick
    \/ \E p \in Server :
          NoneInProgress
          /\ GenStart(p, "f1", "c1", Num(ClassLat), Num(ClassLon), DefaultRadius, 1)
    \/ \E p \in Server : GenGetCourse(p)
    \/ \E p \in Server : GenAddSession(p)
    \/ \E p \in Server : GenSetQR(p)
    \/ \E p \in Server, uid \in Students, t \in issued :
          NoneInProgress /\ ScanStart(p, uid, QrObject(t), Num(30), Num(ClassLon))
    \/ \E p \in Server : ScanGetSession(p)
    \/ \E p \in Server : ScanQueryEnrollment(p)
    \/ \E p \in Server : ScanQueryAttendance(p)
    \/ \E p \in Server : ScanAddAttendance(p)
    \/ \E p \in Server : ScanUpdateSession(p)
    \/ \E p \in Server, uid \in Faculty \cup Students, sessionId \in SessionIdUniverse :
          NoneInProgress /\ AttendanceStart(p, uid, sessionId)
    \/ \E p \in Server : AttendanceGetSession(p)
    \/ \E p \in Server : AttendanceQuery(p)

SpecAttendance == Init /\ [][NextAttendance]_vars

\* C23: the attendance of a session is returned only to the faculty that owns
\* the session; a request by any other user is answered Forbidden and carries
\* no attendee.
C23_AttendanceOnlyToOwner ==
    (/\ sent.kind = "sessionAttendance"
     /\ SessionDoc(sent.sessionId).exists
     /\ SessionDoc(sent.sessionId).facultyId # sent.uid)
    => sent.resp.error = "Forbidden" /\ sent.attendees = << >>

(***************************************************************************)
(* DELETE /api/faculty/courses/:courseId                                   *)
(***************************************************************************)
\* the request arrives; a route parameter is never empty (lines 672-677)
DeleteStart(p, uid, courseId) ==
    /\ req[p].pc = "idle"
    /\ Continue(p, [kind |-> "delete", pc |-> "getCourse", uid |-> uid,
                    courseId |-> courseId, snapshot |-> {}, resp |-> Pending])
    /\ UNCHANGED <<now, courses, enrollments, sessions, activeQRs, attendance, issued>>

\* courses.doc(courseId).get(), the 404 and the owner check (lines 679-689)
DeleteGetCourse(p) ==
    /\ req[p].kind = "delete" /\ req[p].pc = "getCourse"
    /\ IF ~CourseDoc(req[p].courseId).exists
       THEN Respond(p, req[p], Response("NotFound"))
       ELSE IF CourseDoc(req[p].courseId).facultyId # req[p].uid
       THEN Respond(p, req[p], Response("Forbidden"))
       ELSE Continue(p, [req[p] EXCEPT !.pc = "deleteCourse"])
    /\ UNCHANGED <<now, courses, enrollments, sessions, activeQRs, attendance, issued>>

\* courses.doc(courseId).delete() (lines 691-692)
DeleteCourseDoc(p) ==
    /\ req[p].kind = "delete" /\ req[p].pc = "deleteCourse"
    /\ courses' = [c \in DOMAIN courses |->
                     IF c = req[p].courseId THEN NoDoc ELSE courses[c]]
    /\ Continue(p, [req[p] EXCEPT !.pc = "queryEnrollments"])
    /\ UNCHANGED <<now, enrollments, sessions, activeQRs, attendance, issued>>

\* the query of the course's enrollments (lines 694-697)
DeleteQueryEnrollments(p) ==
    /\ req[p].kind = "delete" /\ req[p].pc = "queryEnrollments"
    /\ Continue(p, [req[p] EXCEPT
                      !.pc = "commit",
                      !.snapshot = DocIds(enrollments,
                                          LAMBDA e : e.courseId = req[p].courseId)])
    /\ UNCHANGED <<now, courses, enrollments, sessions, activeQRs, attendance, issued>>

\* the documents of coll outside ids, in their order
RECURSIVE Without(_, _)
Without(coll, ids) ==
    IF coll = << >> THEN << >>
    ELSE LET front == Without(SubSeq(coll, 1, Len(coll) - 1), ids)
         IN IF Len(coll) \in ids THEN front ELSE Append(front, coll[Len(coll)])

\* the batch that deletes the documents of the snapshot, and the response
\* (lines 699-705)
DeleteCommit(p) ==
    /\ req[p].kind = "delete" /\ req[p].pc = "commit"
    /\ enrollments' = Without(enrollments, req[p].snapshot)
    /\ Respond(p, req[p], Response("OK"))
    /\ UNCHANGED <<now, courses, sessions, activeQRs, attendance, issued>>

(***************************************************************************)
(* Requests served one by one: enroll-student and delete-course by every   *)
(* faculty for every course.                                               *)
(***************************************************************************)
NextCourse ==
    \/ \E p \in Server, uid \in Faculty, courseId \in Courses,
          email \in {StudentEmail(u) : u \in Students} \cup {UnknownEmail} :
          NoneInProgress /\ EnrollStart(p, uid, courseId, email)
    \/ \E p \in Server : EnrollFindStudent(p)
    \/ \E p \in Server : EnrollCheckExisting(p)
    \/ \E p \in Server : EnrollAddEnrollment(p)
    \/ \E p \in Server, uid \in Faculty, courseId \in Courses \cup {MissingCourse} :
          NoneInProgress /\ DeleteStart(p, uid, courseId)
    \/ \E p \in Server : DeleteGetCourse(p)
    \/ \E p \in Server : DeleteCourseDoc(p)
    \/ \E p \in Server : DeleteQueryEnrollments(p)
    \/ \E p \in Server : DeleteCommit(p)

SpecCourse == Init /\ [][NextCourse]_vars

\* C26: a request to enroll a student in a course, or to delete a course, by
\* a user who is not the faculty of the course is rejected (Forbidden, or an
\* earlier rejection) and none of its steps changes a course or an enrollment.
C26_CourseWritesOnlyByOwner ==
    [][\A p \in Server :
          (/\ req[p].kind \in {"enroll", "delete"}
           /\ CourseDoc(req[p].courseId).exists
           /\ CourseDoc(req[p].courseId).facultyId # req[p].uid)
          => /\ UNCHANGED <<courses, enrollments>>
             /\ req'[p] = Idle => sent'.resp.error # "OK"
      ]_vars

(***************************************************************************)
(* Concurrent requests: sessions of f1 are started while any user stops    *)
(* a session whose document exists (the student dashboard lists the ids    *)
(* of the sessions of the day, lines 315-321).                             *)
(***************************************************************************)
NextStop ==
    \/ Tick
    \/ \E p \in Procs :
          GenStart(p, "f1", "c1", Num(ClassLat), Num(ClassLon), DefaultRadius, 1)
    \/ \E p \in Procs : GenGetCourse(p)
    \/ \E p \in Procs : GenAddSession(p)
    \/ \E p \in Procs : GenSetQR(p)
    \/ \E p \in Procs, uid \in Faculty \cup Students, sessionId \in SessionIdUniverse :
          SessionDoc(sessionId).exists /\ StopStart(p, uid, sessionId)
    \/ \E p \in Procs : StopUpdateSession(p)
    \/ \E p \in Procs : StopDeleteQR(p)

SpecStop == Init /\ [][NextStop]_vars

\* a stop request of the session has been answered and none is under way
\* between its two writes
StopCompleted(sessionId) ==
    /\ SessionDoc(sessionId).exists /\ SessionDoc(sessionId).ended
    /\ \A p \in Procs : ~(/\ req[p].kind = "stop" /\ req[p].pc = "deleteQR"
                          /\ req[p].sessionId = sessionId)

\* C29: no step sets isActive of a session back to true once it is false, and
\* once a stop of the session has completed, no state holds a stored payload
\* for the session.
C29_StoppedIsTerminal ==
    [][\A s \in SessionIdUniverse :
          /\ (SessionDoc(s).exists /\ ~SessionDoc(s).isActive)
             => (SessionDoc(s).exists /\ ~SessionDoc(s).isActive)'
          /\ StopCompleted(s)' => ~activeQRs'[s].exists
      ]_vars

=============================================================================
